---- MODULE Spec2Model ----
(***************************************************************************)
(* A model of the REST backend: the book controllers and their route       *)
(* table (src/server.js, src/routes/bookRoutes.js, src/model/bookModel.js) *)
(* and the authentication code documented in src/backend.md (user schema,  *)
(* authMiddleware, registerUser, loginUser, the aggregation stages).       *)
(*                                                                         *)
(* JSON values are records [t, v]: t is the JavaScript type, v the value   *)
(* as text.  Object ids are 24-hex strings in the program; here they are   *)
(* the strings "o1", "o2", ... (generated) and "u1", "u2", "u9" (users).   *)
(***************************************************************************)
EXTENDS Integers, Sequences, FiniteSets, TLC

VARIABLES now, users, books, nextOid, createdIds, last, prev,
          issued, gate, reg, pipe

vars == <<now, users, books, nextOid, createdIds, last, prev, issued, gate, reg, pipe>>

\* ------------------------------------------------------------------ bounds

\* The number of object ids the store generates in one run.
MaxOid == 2
\* The last tick of the clock (one tick is one hour).
MaxTime == 1
\* The largest number of documents in the products collection.
MaxProducts == 3
\* The largest value of $limit.
MaxLimit == 2

\* ------------------------------------------------------------ JSON values

Undef == [t |-> "undefined", v |-> ""]
Null == [t |-> "null", v |-> ""]
Obj == [t |-> "object", v |-> ""]
Str(s) == [t |-> "string", v |-> s]
OidV(s) == [t |-> "ObjectId", v |-> s]

\* The text of the n-th generated object id.
Oid(n) == "o" \o ToString(n)

\* The strings that are well-formed object ids (24 hex digits in the program).
OidStrings == {Oid(n) : n \in 1..(MaxOid + 2)} \cup {"u1", "u2", "u9"}

IsObjectIdString(s) == s \in OidStrings

\* Range of a sequence.
Range(s) == {s[i] : i \in DOMAIN s}

\* The subsequence of s at the positions in S, in order.
SelectIdx(s, S) ==
  LET F[i \in 0..Len(s)] ==
        IF i = 0 THEN <<>>
        ELSE IF i \in S THEN Append(F[i - 1], s[i]) ELSE F[i - 1]
  IN F[Len(s)]

\* ------------------------------------------------------------- the store

\* Users already in the store when the server boots.
SeedUsers ==
  << [_id |-> "u1", name |-> "ann", username |-> "ann1", email |-> "ann@x.io",
      password |-> "$2b$secret1"],
     [_id |-> "u2", name |-> "bob", username |-> "bob1", email |-> "bob@x.io",
      password |-> "$2b$secret2"] >>

\* Placeholders of the request record.
NoDoc == [_id |-> "", name |-> Undef, createdBy |-> Undef, createdAt |-> -1, updatedAt |-> -1]
NoBody == [_id |-> Undef, name |-> Undef, createdBy |-> Undef]
NoUser == [_id |-> "", name |-> ""]

\* bookschema: name is a required String.  The required validator of a
\* String refuses undefined, null and the empty string; an object does not
\* cast to String.
NameValid(name) == name.t = "string" /\ name.v # ""

\* bookschema: createdBy is a required ObjectId.  A string casts to an
\* ObjectId only when it is a well-formed id; the reference is not resolved.
CreatedByValid(createdBy) == createdBy.t = "string" /\ IsObjectIdString(createdBy.v)

\* An id derived from the number of stored documents.
NewObjectIdFromCount(n, stored) == Oid(Len(stored) + 1)

\* The ObjectId generator: every call yields an id never handed out before.
NewObjectId(n, stored) == Oid(n)

\* Book.create({ name, createdBy }): validate against bookschema, stamp and insert.
BookCreate(name, createdBy) ==
  IF NameValid(name) /\ CreatedByValid(createdBy)
  THEN [ok |-> TRUE, message |-> "",
        doc |-> [_id |-> NewObjectId(nextOid, books), name |-> name,
                 createdBy |-> OidV(createdBy.v),
                 createdAt |-> now, updatedAt |-> now]]
  ELSE [ok |-> FALSE, message |-> "Book validation failed", doc |-> NoDoc]

\* The positions of the stored books that match { _id: id }.
MatchId(bs, id) == {i \in DOMAIN bs : bs[i]._id = id}

\* The positions of the stored books that match { name: s }.
MatchName(bs, s) == {i \in DOMAIN bs : bs[i].name = Str(s)}

Min(S) == CHOOSE x \in S : \A y \in S : x <= y

\* deleteOne that throws when nothing matches.
BookDeleteOneStrict(bs, bookId) ==
  LET M == MatchId(bs, bookId) IN
  IF ~IsObjectIdString(bookId) \/ M = {}
  THEN [ok |-> FALSE, message |-> "No document matched", count |-> 0, books |-> bs]
  ELSE [ok |-> TRUE, message |-> "", count |-> 1,
        books |-> SelectIdx(bs, DOMAIN bs \ {Min(M)})]

\* Book.deleteOne({ _id: bookId }): the filter is cast to the schema first; the
\* first matching document is removed.
BookDeleteOne(bs, bookId) ==
  IF ~IsObjectIdString(bookId)
  THEN [ok |-> FALSE, message |-> "Cast to ObjectId failed", count |-> 0, books |-> bs]
  ELSE LET M == MatchId(bs, bookId) IN
       IF M = {}
       THEN [ok |-> TRUE, message |-> "", count |-> 0, books |-> bs]
       ELSE [ok |-> TRUE, message |-> "", count |-> 1,
             books |-> SelectIdx(bs, DOMAIN bs \ {Min(M)})]

\* Whether the update document casts to bookschema (name: String,
\* createdBy: ObjectId, _id: ObjectId); null casts to null.
UpdateCasts(body) ==
  /\ body.name.t \in {"undefined", "null", "string"}
  /\ body.createdBy.t \in {"undefined", "null"}
       \/ (body.createdBy.t = "string" /\ IsObjectIdString(body.createdBy.v))
  /\ body._id.t = "undefined"
       \/ (body._id.t = "string" /\ IsObjectIdString(body._id.v))

\* An update that replaces the document instead of setting the fields given.
ApplyUpdateOverwrite(doc, body) ==
  [doc EXCEPT
     !.name = body.name,
     !.createdBy = IF body.createdBy.t = "string" THEN OidV(body.createdBy.v)
                   ELSE body.createdBy,
     !.updatedAt = now]

\* The document after { $set: body, updatedAt: now }; fields the body does
\* not carry are left alone, validators do not run.
ApplyUpdate(doc, body) ==
  [doc EXCEPT
     !.name = IF body.name.t = "undefined" THEN @ ELSE body.name,
     !.createdBy = IF body.createdBy.t = "undefined" THEN @
                   ELSE IF body.createdBy.t = "null" THEN Null
                   ELSE OidV(body.createdBy.v),
     !.updatedAt = now]

\* Book.findByIdAndUpdate(bookId, updatedData, { new: true }).  The result is
\* the post-update document, null (found |-> FALSE) when no document has the
\* id, or a thrown error: a cast error, or the store's refusal to change _id.
BookFindByIdAndUpdate(bs, bookId, body) ==
  IF ~IsObjectIdString(bookId) \/ ~UpdateCasts(body)
  THEN [ok |-> FALSE, found |-> FALSE, message |-> "Cast failed", doc |-> NoDoc, books |-> bs]
  ELSE LET M == MatchId(bs, bookId) IN
       IF M = {}
       THEN [ok |-> TRUE, found |-> FALSE, message |-> "", doc |-> NoDoc, books |-> bs]
       ELSE LET i == Min(M) IN
            IF body._id.t = "string" /\ body._id.v # bs[i]._id
            THEN [ok |-> FALSE, found |-> FALSE, doc |-> NoDoc, books |-> bs,
                  message |-> "would modify the immutable field '_id'"]
            ELSE [ok |-> TRUE, found |-> TRUE, message |-> "",
                  doc |-> ApplyUpdate(bs[i], body),
                  books |-> [bs EXCEPT ![i] = ApplyUpdate(bs[i], body)]]

\* populate([{ path: 'createdBy', select: 'name' }]): the referenced user's
\* _id and name, or null (NoUser) when the reference resolves to no user.
Populate(us, ref) ==
  LET M == {i \in DOMAIN us : ref = OidV(us[i]._id)} IN
  IF M = {} THEN NoUser ELSE [_id |-> us[Min(M)]._id, name |-> us[Min(M)].name]

\* The store calls populate makes for a found book: one find on users when
\* the book carries a reference, none when createdBy is null.
PopulateCalls(doc) == IF doc.createdBy.t = "ObjectId" THEN 1 ELSE 0

\* Book.findOne({ name: bookId }).populate(...).select('-name'): the first
\* book whose NAME is the path value, without its name.
BookFindOneByName(bs, us, bookId) ==
  LET M == MatchName(bs, bookId) IN
  IF M = {}
  THEN [found |-> FALSE, doc |-> NoDoc, populated |-> NoUser]
  ELSE [found |-> TRUE, doc |-> [bs[Min(M)] EXCEPT !.name = Undef],
        populated |-> Populate(us, bs[Min(M)].createdBy)]

\* The relation of a document that has passed the collapse stage: a nested
\* object holding a user's _id and name, or no field at all.
Nested(u) == [t |-> "object", _id |-> u._id, name |-> u.name]
Absent == [t |-> "undefined", _id |-> "", name |-> ""]

\* { $lookup: { from: 'users', localField: 'createdBy', foreignField: '_id',
\*              as: 'createdBy', pipeline: [{ $project: { name: 1 } }] } }:
\* createdBy becomes the sequence of the users whose _id is the reference,
\* each cut down to _id and name.
Lookup(bs, us) ==
  [i \in DOMAIN bs |->
     [bs[i] EXCEPT !.createdBy =
        LET J == SelectIdx(us, {j \in DOMAIN us : bs[i].createdBy = OidV(us[j]._id)})
        IN [k \in DOMAIN J |-> [_id |-> J[k]._id, name |-> J[k].name]]]]

\* The filter stage comparing names without regard to case.
MatchJoinedNameAnyCase(ds, name) ==
  LET folded == IF name.v = "Ann" THEN "ann" ELSE name.v IN
  SelectIdx(ds, {i \in DOMAIN ds :
                  \E k \in DOMAIN ds[i].createdBy :
                    ds[i].createdBy[k].name = folded})

\* { $match: { 'createdBy.name': name } }.  A string keeps the documents with
\* a joined user of exactly that name.  An undefined value is written to the
\* wire as null, and { field: null } keeps the documents in which no joined
\* user carries the field: those whose join is empty, every projected user
\* having a name.
MatchJoinedName(ds, name) ==
  SelectIdx(ds, {i \in DOMAIN ds :
                  IF name.t = "string"
                  THEN \E k \in DOMAIN ds[i].createdBy :
                         ds[i].createdBy[k].name = name.v
                  ELSE Len(ds[i].createdBy) = 0})

\* { $set: { createdBy: { $first: '$createdBy' } } }: $first of an empty array
\* is no value, and setting a field to no value removes it.
SetFirst(ds) ==
  [i \in DOMAIN ds |->
     [ds[i] EXCEPT !.createdBy = IF Len(@) = 0 THEN Absent ELSE Nested(@[1])]]

\* Book.aggregate([ $lookup, $match, $set ])
BookAggregate(bs, us, name) == SetFirst(MatchJoinedName(Lookup(bs, us), name))

\* ------------------------------------------------------- request inputs

Body(i, n, c) == [_id |-> i, name |-> n, createdBy |-> c]

\* A book name: names are free text, and this one reads like an object id.
NameO1 == Str(Oid(1))

\* Create bodies: well-formed ones, and ones with a field missing, null,
\* empty or of the wrong type.
AddBodies ==
  { Body(Undef, NameO1, Str("u1")), Body(Undef, NameO1, Str("u9")),
    Body(Undef, Str("book1"), Str("u1")), Body(Undef, Str("book1"), Undef),
    Body(Undef, Str("Book1"), Str("zz")),
    Body(Undef, Undef, Str("u1")), Body(Undef, Null, Str("u1")),
    Body(Undef, Str(""), Str("u1")), Body(Undef, Obj, Str("u1")),
    Body(Undef, NameO1, Undef), Body(Undef, NameO1, Str("zz")) }

\* Update bodies: each field absent or supplied.
UpdateBodies ==
  { Body(Undef, Undef, Undef),
    Body(Undef, NameO1, Undef), Body(Undef, Null, Undef), Body(Undef, Obj, Undef),
    Body(Undef, Undef, Str("u9")), Body(Undef, Undef, Str("zz")),
    Body(Undef, NameO1, Str("u9")),
    Body(Str(Oid(2)), Undef, Undef), Body(Str(Oid(2)), NameO1, Undef) }

\* Values of the :bookId path segment: every id the store can generate, one it
\* never generates, and a string that is no object id.
PathValues == {Oid(n) : n \in 1..(MaxOid + 1)} \cup {"zz"}

\* Values of the name query parameter of GET /books/list: absent, or a string.
QueryValues == {Undef, Str("ann"), Str("Ann"), Str("bob"), Str("")}

\* Which store call of a request fails: none, or the first (updateOnlyOneBook,
\* which may make two, is also run with 2).
Faults == {0, 1}

\* ---------------------------------------------------- the request record

\* What the last request was and how it was answered.  sent counts the
\* responses written, threw tells that a store call failed (the connection
\* was lost, the server answered with an error), kind names the shape
\* of the response body: "doc", "docs", "joined", "count", "message", "error"
\* (the framework's error page) or "none".
NoRequest ==
  [op |-> "none", bookId |-> "", body |-> NoBody, pre |-> <<>>, status |-> 0,
   kind |-> "none", doc |-> NoDoc, docs |-> <<>>, count |-> 0, message |-> "",
   populated |-> NoUser, ran |-> FALSE, nextErr |-> FALSE, trips |-> 0,
   query |-> Undef, joined |-> <<>>, threw |-> FALSE, sent |-> 0]

\* What is kept of the request before the last one: the id it deleted, when
\* it was a delete that removed a book, and "" otherwise.
Trim(r) == IF r.op = "delete" /\ r.status = 200 /\ r.count = 1 THEN r.bookId ELSE ""

\* A request is taken up when the one before it has been answered.  Every
\* book controller but updateOnlyOneBook makes a single store call, so
\* concurrent requests act on the store in some serial order, and that order
\* is what the model runs.
Idle == last.op = "none"

Request(op, bookId, body) ==
  [NoRequest EXCEPT !.op = op, !.bookId = bookId, !.body = body, !.pre = books]

\* A handler without the catch block: the error leaves the handler and no
\* response is written.
CaughtEscapes(req, message) ==
  [req EXCEPT !.message = message, !.ran = TRUE]

\* catch (e) { res.status(400).json({ message: e.message }) }.  trips, the
\* number of round-trips to the store, is left at 0: a validation or cast
\* error is thrown before the store is called.
Caught(req, message) ==
  [req EXCEPT !.status = 400, !.kind = "message", !.message = message,
              !.ran = TRUE, !.sent = 1]

\* The awaited store call rejected: control passes to the catch block.
Thrown(req) == [Caught(req, "store fault") EXCEPT !.threw = TRUE, !.trips = 1]

\* The null check left out: the null result is sent as a success.
NotFoundAsNull(req) ==
  [req EXCEPT !.status = 200, !.kind = "doc", !.ran = TRUE, !.sent = 1, !.trips = 1]

\* res.status(404).json({ message: 'Book not found' })
NotFound(req) ==
  [req EXCEPT !.status = 404, !.kind = "message", !.message = "Book not found",
              !.ran = TRUE, !.sent = 1, !.trips = 1]

\* ------------------------------------------------------- the controllers

\* middle with the sentinel compared without regard to case.
MiddleAnyCase(body) == ~(body.name \in {Str("book1"), Str("Book1")})

\* middle: TRUE when the hook calls next() and the controller runs, FALSE when
\* it throws and hands the error to the framework.
Middle(body) == ~(body.name = Str("book1"))

\* addBook.  fault is the store call of the request that fails (0: none);
\* a document that does not validate is refused before the store is called.
AddBook(req, fault) ==
  LET r == BookCreate(req.body.name, req.body.createdBy) IN
  IF r.ok /\ fault = 0
  THEN /\ nextOid <= MaxOid
       /\ books' = Append(books, r.doc)
       /\ nextOid' = nextOid + 1
       /\ createdIds' = Append(createdIds, r.doc._id)
       /\ last' = [req EXCEPT !.status = 200, !.kind = "doc", !.doc = r.doc,
                              !.ran = TRUE, !.sent = 1, !.trips = 1]
  ELSE /\ last' = IF r.ok THEN Thrown(req) ELSE Caught(req, r.message)
       /\ UNCHANGED <<books, nextOid, createdIds>>

\* POST /books/add: router.route('/add').post(middle, addBook)
PostBooksAdd(body, fault) ==
  LET req == Request("add", "", body) IN
  /\ Idle
  /\ IF Middle(body)
     THEN AddBook(req, fault)
     ELSE /\ last' = [req EXCEPT !.status = 500, !.kind = "error",
                                 !.message = "invalid request", !.nextErr = TRUE,
                                 !.sent = 1]
          /\ UNCHANGED <<books, nextOid, createdIds>>
  /\ UNCHANGED <<now, users, prev, issued, gate, reg, pipe>>

\* GET /books/: getBookList
GetBookList(fault) ==
  LET req == Request("list", "", NoBody) IN
  /\ Idle
  /\ last' = IF fault = 1 THEN Thrown(req)
             ELSE [req EXCEPT !.status = 200, !.kind = "docs", !.docs = books,
                              !.ran = TRUE, !.sent = 1, !.trips = 1]
  /\ UNCHANGED <<now, users, books, nextOid, createdIds, prev, issued, gate, reg, pipe>>

\* DELETE /books/:bookId: deleteBook
DeleteBook(bookId, fault) ==
  LET req == Request("delete", bookId, NoBody)
      r == BookDeleteOne(books, bookId) IN
  /\ Idle
  /\ IF fault = 1 /\ IsObjectIdString(bookId)
     THEN last' = Thrown(req) /\ books' = books
     ELSE /\ IF r.ok
             THEN last' = [req EXCEPT !.status = 200, !.kind = "count",
                                      !.count = r.count,
                                      !.ran = TRUE, !.sent = 1, !.trips = 1]
             ELSE last' = Caught(req, r.message)
          /\ books' = r.books
  /\ UNCHANGED <<now, users, nextOid, createdIds, prev, issued, gate, reg, pipe>>

\* PATCH /books/:bookId: updateBook
UpdateBook(bookId, body, fault) ==
  LET req == Request("update", bookId, body)
      r == BookFindByIdAndUpdate(books, bookId, body) IN
  /\ Idle
  /\ IF fault = 1 /\ IsObjectIdString(bookId) /\ UpdateCasts(body)
     THEN last' = Thrown(req) /\ books' = books
     ELSE /\ IF ~r.ok
             THEN last' = [Caught(req, r.message) EXCEPT
                             !.trips = IF IsObjectIdString(bookId) /\ UpdateCasts(body)
                                       THEN 1 ELSE 0]
             ELSE IF ~r.found THEN last' = NotFound(req)
             ELSE last' = [req EXCEPT !.status = 200, !.kind = "doc", !.doc = r.doc,
                                      !.ran = TRUE, !.sent = 1, !.trips = 1]
          /\ books' = r.books
  /\ UNCHANGED <<now, users, nextOid, createdIds, prev, issued, gate, reg, pipe>>

\* GET /books/:bookId: updateOnlyOneBook.  The query is answered in two calls,
\* findOne on books and then populate's find on users.  They run as one step
\* here: the second reads only users, and no request of the program changes
\* a stored user (registerUser's save never succeeds, and there is no route
\* that updates or deletes a user).
UpdateOnlyOneBook(bookId, fault) ==
  LET req == Request("readOne", bookId, NoBody)
      r == BookFindOneByName(books, users, bookId) IN
  /\ Idle
  /\ IF fault = 1 THEN last' = Thrown(req)
     ELSE IF ~r.found THEN last' = NotFound(req)
     ELSE IF fault = 2 /\ PopulateCalls(r.doc) = 1
          THEN last' = [Thrown(req) EXCEPT !.trips = 2]
     ELSE last' = [req EXCEPT !.status = 200, !.kind = "doc", !.doc = r.doc,
                              !.populated = r.populated, !.ran = TRUE, !.sent = 1,
                              !.trips = 1 + PopulateCalls(r.doc)]
  /\ UNCHANGED <<now, users, books, nextOid, createdIds, prev, issued, gate, reg, pipe>>

\* GET /books/list?name=v: listBook
ListBook(name, fault) ==
  LET req == [Request("joined", "", NoBody) EXCEPT !.query = name] IN
  /\ Idle
  /\ last' = IF fault = 1 THEN Thrown(req)
             ELSE [req EXCEPT !.status = 200, !.kind = "joined",
                              !.joined = BookAggregate(books, users, name),
                              !.ran = TRUE, !.sent = 1, !.trips = 1]
  /\ UNCHANGED <<now, users, books, nextOid, createdIds, prev, issued, gate, reg, pipe>>

\* The response has been sent: the request is over, and what the next request
\* needs of it is kept.
Respond ==
  /\ ~Idle
  /\ last' = NoRequest
  /\ prev' = Trim(last)
  /\ UNCHANGED <<now, users, books, nextOid, createdIds, issued, gate, reg, pipe>>

\* The clock advances.
Tick ==
  /\ now < MaxTime
  /\ now' = now + 1
  /\ UNCHANGED <<users, books, nextOid, createdIds, last, prev, issued, gate, reg, pipe>>

\* ---------------------------------------------------------- the auth gate

\* jwt.sign(..., { expiresIn: "1h" }): the lifetime of a token, in ticks.
TokenTTL == 1

\* The key loginUser signs with and authMiddleware verifies with.
Secret == "yourSecretKey"

\* "Bearer " as a sequence of characters.
Bearer == <<"B", "e", "a", "r", "e", "r", " ">>

\* String.prototype.startsWith
StartsWith(s, prefix) ==
  Len(s) >= Len(prefix) /\ SubSeq(s, 1, Len(prefix)) = prefix

\* String.prototype.split(sep): the pieces of s between the occurrences of sep.
SplitOn(s, sep) ==
  LET F[i \in 0..Len(s)] ==
        IF i = 0 THEN << <<>> >>
        ELSE IF s[i] = sep THEN Append(F[i - 1], <<>>)
        ELSE [F[i - 1] EXCEPT ![Len(F[i - 1])] = Append(@, s[i])]
  IN F[Len(s)]

\* The claims a token can carry: the payload loginUser signs, with the iat and
\* exp that jwt.sign adds.
ClaimsSet ==
  {[id |-> u._id, email |-> u.email, iat |-> t, exp |-> t + TokenTTL] :
     u \in Range(SeedUsers), t \in 0..MaxTime}

NoClaims == [id |-> "", email |-> "", iat |-> -1, exp |-> -1]

\* The three segments of a JSON web token.  A segment is one character of the
\* token here; the payload segment encodes the claims and the signature
\* segment is a keyed digest of the two segments before it.
HeaderSeg == "HS256"
PayloadSeg(c) ==
  "P[" \o c.id \o "," \o c.email \o "," \o ToString(c.iat) \o "," \o ToString(c.exp) \o "]"
SigSeg(h, p, key) == "S[" \o h \o "," \o p \o "," \o key \o "]"

\* jwt.sign(payload, key, { expiresIn }) at time t.
JwtSign(id, email, key, t) ==
  LET p == PayloadSeg([id |-> id, email |-> email, iat |-> t, exp |-> t + TokenTTL])
  IN <<HeaderSeg, ".", p, ".", SigSeg(HeaderSeg, p, key)>>

\* jwt.decode in place of jwt.verify: the payload is read and nothing is checked.
JwtDecode(token, key, t) ==
  LET parts == SplitOn(token, ".") IN
  IF Len(parts) = 3 /\ Len(parts[2]) = 1
       /\ \E c \in ClaimsSet : PayloadSeg(c) = parts[2][1]
  THEN [ok |-> TRUE, message |-> "",
        claims |-> CHOOSE c \in ClaimsSet : PayloadSeg(c) = parts[2][1]]
  ELSE [ok |-> FALSE, message |-> "invalid token", claims |-> NoClaims]

\* jwt.verify(token, key) at time t: the decoded payload, or a thrown error
\* (no token, not three segments, an undecodable segment, a signature that is
\* not the key's, or an expired token).
JwtVerify(token, key, t) ==
  LET parts == SplitOn(token, ".")
      Fail(m) == [ok |-> FALSE, message |-> m, claims |-> NoClaims] IN
  IF token = <<>> THEN Fail("jwt must be provided")
  ELSE IF Len(parts) # 3 THEN Fail("jwt malformed")
  ELSE IF \E k \in 1..3 : Len(parts[k]) # 1 THEN Fail("invalid token")
  ELSE IF parts[1][1] # HeaderSeg \/ ~(\E c \in ClaimsSet : PayloadSeg(c) = parts[2][1])
    THEN Fail("invalid token")
  ELSE IF parts[3][1] # SigSeg(parts[1][1], parts[2][1], key) THEN Fail("invalid signature")
  ELSE LET c == CHOOSE c \in ClaimsSet : PayloadSeg(c) = parts[2][1] IN
       IF t >= c.exp THEN Fail("jwt expired")
       ELSE [ok |-> TRUE, message |-> "", claims |-> c]

\* bcrypt.hash and userSchema.methods.comparePassword
BcryptHash(password) == "$2b$" \o password
ComparePassword(candidate, hashed) == BcryptHash(candidate) = hashed

\* The record of the last request to the auth code.  header is the
\* Authorization header (present |-> FALSE when the request has none), user is
\* req.user (hasUser |-> FALSE while it is unset), verified the tokens handed
\* to jwt.verify, token the token loginUser answered with.
NoGate ==
  [op |-> "none", present |-> FALSE, header |-> <<>>, email |-> "", password |-> "",
   at |-> 0, status |-> 0, message |-> "", hasUser |-> FALSE, user |-> NoClaims,
   nextCalls |-> 0, verified |-> <<>>, token |-> <<>>, trips |-> 0]

GateIdle == gate.op = "none"

\* The first piece of the header instead of the second.
ExtractTokenFirst(authHeader) == SplitOn(authHeader, " ")[1]

\* The token authMiddleware takes from the header: authHeader.split(" ")[1],
\* which is undefined (no token, <<>>) when the header holds no space.
ExtractToken(authHeader) ==
  LET parts == SplitOn(authHeader, " ") IN
  IF Len(parts) >= 2 THEN parts[2] ELSE <<>>

\* The scheme check left out.
NoCredentialUnlessAny(present, authHeader) == ~present \/ authHeader = <<>>

\* Whether authMiddleware turns the request away before verification:
\* !authHeader || !authHeader.startsWith("Bearer ")
NoCredential(present, authHeader) ==
  ~present \/ authHeader = <<>> \/ ~StartsWith(authHeader, Bearer)

\* The catch branch of authMiddleware: res.status(400).json({ message: "Invalid token." })
InvalidToken(req) == [req EXCEPT !.status = 400, !.message = "Invalid token."]

\* authMiddleware
AuthMiddleware(present, authHeader) ==
  LET req == [NoGate EXCEPT !.op = "gate", !.present = present,
                            !.header = authHeader, !.at = now] IN
  /\ GateIdle
  /\ IF NoCredential(present, authHeader)
     THEN gate' = [req EXCEPT !.status = 401,
                              !.message = "Access denied. No token provided."]
     ELSE LET token == ExtractToken(authHeader)
              r == JwtVerify(token, Secret, now)
              tried == [req EXCEPT !.verified = <<token>>] IN
          IF r.ok
          THEN gate' = [tried EXCEPT !.hasUser = TRUE, !.user = r.claims, !.nextCalls = 1]
          ELSE gate' = InvalidToken(tried)
  /\ UNCHANGED <<now, users, books, nextOid, createdIds, last, prev, issued, reg, pipe>>

\* loginUser
LoginUser(email, password) ==
  LET req == [NoGate EXCEPT !.op = "login", !.email = email, !.password = password,
                            !.at = now]
      M == {i \in DOMAIN users : users[i].email = email} IN
  /\ GateIdle
  /\ IF email = "" \/ password = ""
     THEN /\ gate' = [req EXCEPT !.status = 400,
                                 !.message = "Email and password are required"]
          /\ UNCHANGED issued
     ELSE IF M = {} \/ ~ComparePassword(password, users[Min(M)].password)
     THEN /\ gate' = [req EXCEPT !.status = 400, !.message = "Invalid credentials",
                                 !.trips = 1]
          /\ UNCHANGED issued
     ELSE LET user == users[Min(M)]
              token == JwtSign(user._id, user.email, Secret, now) IN
          /\ gate' = [req EXCEPT !.status = 200, !.message = "Login successful",
                                 !.token = token, !.trips = 1]
          /\ issued' = issued \cup {[token |-> token, id |-> user._id, email |-> user.email]}
  /\ UNCHANGED <<now, users, books, nextOid, createdIds, last, prev, reg, pipe>>

\* The request to the auth code is over.
RespondAuth ==
  /\ ~GateIdle
  /\ gate' = NoGate
  /\ UNCHANGED <<now, users, books, nextOid, createdIds, last, prev, issued, reg, pipe>>

\* Tokens a caller may present: signed with the key for any claims, signed
\* with another key, a payload swapped under another token's signature, a
\* token cut short, and text that is no token.
Tokens ==
  {JwtSign(c.id, c.email, Secret, c.iat) : c \in ClaimsSet}
  \cup {JwtSign(c.id, c.email, "otherKey", c.iat) : c \in ClaimsSet}
  \cup {<<HeaderSeg, ".", PayloadSeg(c), ".", SigSeg(HeaderSeg, PayloadSeg(d), Secret)>> :
          c \in ClaimsSet, d \in {e \in ClaimsSet : e.iat = 0 /\ e.id = "u1"}}
  \cup {<<HeaderSeg, ".", PayloadSeg(c)>> : c \in {e \in ClaimsSet : e.iat = 0}}
  \cup {<<"x">>, <<>>}

\* What may follow the scheme: a token, or a token and more text after a space.
Credentials == Tokens \cup {t \o <<" ", "x">> : t \in Tokens}

\* Authorization headers: the scheme as the gate expects it, in lower case,
\* without its space, with two spaces, after a leading space, and left out.
Headers ==
  {Bearer \o c : c \in Credentials}
  \cup {<<"b", "e", "a", "r", "e", "r", " ">> \o c : c \in Credentials}
  \cup {<<"B", "e", "a", "r", "e", "r">> \o c : c \in Credentials}
  \cup {Bearer \o <<" ">> \o c : c \in Tokens}
  \cup {<<" ">> \o Bearer \o c : c \in Tokens}
  \cup Tokens

LoginEmails == {"", "ann@x.io", "bob@x.io", "eve@x.io"}
LoginPasswords == {"", "secret1", "secret2"}

\* --------------------------------------------------------- registration

\* validator.isEmail
IsEmail(e) == e \in {"ann@x.io", "bob@x.io", "eve@x.io"}

\* userSchema: every field required ("" stands for a field the document does
\* not have), username of 3 to 50 characters, email well-formed, password of
\* at least 6 characters.
UserValid(doc) ==
  /\ doc.name # ""
  /\ doc.username # "" /\ Len(doc.username) >= 3 /\ Len(doc.username) <= 50
  /\ doc.email # "" /\ IsEmail(doc.email)
  /\ doc.password # "" /\ Len(doc.password) >= 6

\* new User({ username, email, password }): the name of the body is not
\* passed on, so the document has none.
NewUser(body) ==
  [_id |-> Oid(nextOid), name |-> "", username |-> body.username,
   email |-> body.email, password |-> body.password]

\* newUser.save(): validate against userSchema, hash the password (the
\* pre-save hook), insert under the unique indexes on username and email.
UserSave(us, doc) ==
  IF ~UserValid(doc)
  THEN [ok |-> FALSE, message |-> "User validation failed", users |-> us]
  ELSE IF \E i \in DOMAIN us : us[i].email = doc.email \/ us[i].username = doc.username
  THEN [ok |-> FALSE, message |-> "E11000 duplicate key error", users |-> us]
  ELSE [ok |-> TRUE, message |-> "",
        users |-> Append(us, [doc EXCEPT !.password = BcryptHash(doc.password)])]

\* The two registration requests in flight.
Slots == {1, 2}

RegBody(n, u, e, p) == [name |-> n, username |-> u, email |-> e, password |-> p]

\* Registration bodies: the documented example, a second user on the same
\* email, and bodies with a field missing, malformed or already taken.
RegBodies ==
  { RegBody("Eve", "eve1", "eve@x.io", "123456"),
    RegBody("Eva", "eva2", "eve@x.io", "abcdef"),
    RegBody("", "eve1", "eve@x.io", "123456"),
    RegBody("Eve", "", "eve@x.io", "123456"),
    RegBody("Eve", "eve1", "", "123456"),
    RegBody("Eve", "eve1", "eve@x.io", ""),
    RegBody("Eve", "ev", "eve@x.io", "12345"),
    RegBody("Eve", "eve1", "eve.x.io", "123456"),
    RegBody("Ann", "ann2", "ann@x.io", "123456") }

NoReg ==
  [pc |-> "idle", body |-> RegBody("", "", "", ""), status |-> 0, message |-> ""]

\* registerUser up to its first await: the required-field check.
RegisterBegin(r, body) ==
  /\ reg[r].pc = "idle"
  /\ IF body.username = "" \/ body.email = "" \/ body.password = ""
     THEN reg' = [reg EXCEPT ![r] = [pc |-> "done", body |-> body, status |-> 400,
                                     message |-> "All fields are required"]]
     ELSE reg' = [reg EXCEPT ![r] = [NoReg EXCEPT !.pc = "finding", !.body = body]]
  /\ UNCHANGED <<now, users, books, nextOid, createdIds, last, prev, issued, gate, pipe>>

\* registerUser from User.findOne({ email }) to the next await.
RegisterFindOne(r) ==
  /\ reg[r].pc = "finding"
  /\ IF \E i \in DOMAIN users : users[i].email = reg[r].body.email
     THEN reg' = [reg EXCEPT ![r].pc = "done", ![r].status = 400,
                             ![r].message = "Email is already in use"]
     ELSE reg' = [reg EXCEPT ![r].pc = "saving"]
  /\ UNCHANGED <<now, users, books, nextOid, createdIds, last, prev, issued, gate, pipe>>

\* registerUser from newUser.save() to its response.
RegisterSave(r) ==
  LET saved == UserSave(users, NewUser(reg[r].body)) IN
  /\ reg[r].pc = "saving"
  /\ IF saved.ok
     THEN /\ nextOid <= MaxOid
          /\ nextOid' = nextOid + 1
          /\ reg' = [reg EXCEPT ![r].pc = "done", ![r].status = 201,
                                ![r].message = "User registered successfully"]
     ELSE /\ UNCHANGED nextOid
          /\ reg' = [reg EXCEPT ![r].pc = "done", ![r].status = 500,
                                ![r].message = "Server error"]
  /\ users' = saved.users
  /\ UNCHANGED <<now, books, createdIds, last, prev, issued, gate, pipe>>

\* The response has been sent and the slot takes the next request.
RegisterRespond(r) ==
  /\ reg[r].pc = "done"
  /\ reg' = [reg EXCEPT ![r] = NoReg]
  /\ UNCHANGED <<now, users, books, nextOid, createdIds, last, prev, issued, gate, pipe>>

\* ------------------------------------------- the aggregation pipeline

\* Prices, quantities and $gt thresholds of the examples.
Prices == {10, 15, 20}
Quantities == {2, 5, 8}
Thresholds == {5, 10}

\* The products collections: document i has _id i.
ProductCollections ==
  UNION {{[i \in 1..n |-> [_id |-> i, price |-> f[i][1], quantity |-> f[i][2]]] :
            f \in [1..n -> Prices \X Quantities]} :
         n \in 0..MaxProducts}

\* { $match: { price: { $gt: t } } }
MatchPriceGt(ds, t) == SelectIdx(ds, {i \in DOMAIN ds : ds[i].price > t})

\* totalQuantity: { $sum: "$quantity" } over the documents of price p.
SumQuantity(ds, p) ==
  LET F[i \in 0..Len(ds)] ==
        IF i = 0 THEN 0
        ELSE IF ds[i].price = p THEN F[i - 1] + ds[i].quantity ELSE F[i - 1]
  IN F[Len(ds)]

\* count: { $sum: 1 } over the documents of price p.
SumOne(ds, p) ==
  LET F[i \in 0..Len(ds)] ==
        IF i = 0 THEN 0
        ELSE IF ds[i].price = p THEN F[i - 1] + 1 ELSE F[i - 1]
  IN F[Len(ds)]

\* The arrangements of a set of documents in a sequence.
Orderings(S) ==
  {s \in [1..Cardinality(S) -> S] : \A i, j \in DOMAIN s : i # j => s[i] # s[j]}

\* { $group: { _id: "$price", totalQuantity: ..., count: ... } }: one document
\* for each value of price; the stage does not order its output.
Group(ds) ==
  Orderings({[_id |-> p, totalQuantity |-> SumQuantity(ds, p), count |-> SumOne(ds, p)] :
             p \in {ds[i].price : i \in DOMAIN ds}})

\* A sort that puts the smallest total first.
SortAscending(gs) ==
  {s \in Orderings(Range(gs)) :
     \A i \in 1..(Len(s) - 1) : s[i].totalQuantity <= s[i + 1].totalQuantity}

\* { $sort: { totalQuantity: -1 } }: documents with equal totals come out in
\* any order.
Sort(gs) ==
  {s \in Orderings(Range(gs)) :
     \A i \in 1..(Len(s) - 1) : s[i].totalQuantity >= s[i + 1].totalQuantity}

\* { $limit: k }
Limit(gs, k) == SubSeq(gs, 1, Min({k, Len(gs)}))

\* The pipeline's run: its collection and parameters, the stage it has
\* passed, and the output of each stage.
NoPipe ==
  [docs |-> <<>>, gt |-> 0, k |-> 0, stage |-> "none",
   matched |-> <<>>, groups |-> <<>>, sorted |-> <<>>, out |-> <<>>]

PipeMatch ==
  /\ pipe.stage = "start"
  /\ pipe' = [pipe EXCEPT !.stage = "matched", !.matched = MatchPriceGt(pipe.docs, pipe.gt)]
  /\ UNCHANGED <<now, users, books, nextOid, createdIds, last, prev, issued, gate, reg>>

PipeGroup ==
  /\ pipe.stage = "matched"
  /\ \E gs \in Group(pipe.matched) :
       pipe' = [pipe EXCEPT !.stage = "grouped", !.groups = gs]
  /\ UNCHANGED <<now, users, books, nextOid, createdIds, last, prev, issued, gate, reg>>

PipeSort ==
  /\ pipe.stage = "grouped"
  /\ \E gs \in Sort(pipe.groups) :
       pipe' = [pipe EXCEPT !.stage = "sorted", !.sorted = gs]
  /\ UNCHANGED <<now, users, books, nextOid, createdIds, last, prev, issued, gate, reg>>

PipeLimit ==
  /\ pipe.stage = "sorted"
  /\ pipe' = [pipe EXCEPT !.stage = "limited", !.out = Limit(pipe.sorted, pipe.k)]
  /\ UNCHANGED <<now, users, books, nextOid, createdIds, last, prev, issued, gate, reg>>

\* -------------------------------------------------- the book service

InitBooks ==
  /\ now = 0
  /\ users = SeedUsers
  /\ books = <<>>
  /\ nextOid = 1
  /\ createdIds = <<>>
  /\ last = NoRequest
  /\ prev = ""
  /\ issued = {}
  /\ gate = NoGate
  /\ reg = [r \in Slots |-> NoReg]
  /\ pipe = NoPipe

NextBooks ==
  \/ \E body \in AddBodies, fault \in Faults : PostBooksAdd(body, fault)
  \/ \E fault \in Faults : GetBookList(fault)
  \/ \E bookId \in PathValues, fault \in Faults : DeleteBook(bookId, fault)
  \/ \E bookId \in PathValues, body \in UpdateBodies, fault \in Faults :
       UpdateBook(bookId, body, fault)
  \/ \E bookId \in PathValues, fault \in Faults \cup {2} :
       UpdateOnlyOneBook(bookId, fault)
  \/ \E name \in QueryValues, fault \in Faults : ListBook(name, fault)
  \/ Respond
  \/ Tick

SpecBooks == InitBooks /\ [][NextBooks]_vars

InitAuth == InitBooks

NextAuth ==
  \/ AuthMiddleware(FALSE, <<>>)
  \/ \E h \in Headers : AuthMiddleware(TRUE, h)
  \/ \E e \in LoginEmails, p \in LoginPasswords : LoginUser(e, p)
  \/ RespondAuth
  \/ Tick

SpecAuth == InitAuth /\ [][NextAuth]_vars

InitUsers == InitBooks

NextUsers ==
  \/ \E r \in Slots, body \in RegBodies : RegisterBegin(r, body)
  \/ \E r \in Slots : RegisterFindOne(r)
  \/ \E r \in Slots : RegisterSave(r)
  \/ \E r \in Slots : RegisterRespond(r)

SpecUsers == InitUsers /\ [][NextUsers]_vars

\* db.products.aggregate([ $match, $group, $sort, $limit ]) over every
\* collection, threshold and limit within the bounds.
InitProducts ==
  /\ now = 0
  /\ users = SeedUsers
  /\ books = <<>>
  /\ nextOid = 1
  /\ createdIds = <<>>
  /\ last = NoRequest
  /\ prev = ""
  /\ issued = {}
  /\ gate = NoGate
  /\ reg = [r \in Slots |-> NoReg]
  /\ \E ds \in ProductCollections, t \in Thresholds, k \in 1..MaxLimit :
       pipe = [NoPipe EXCEPT !.docs = ds, !.gt = t, !.k = k, !.stage = "start"]

NextProducts ==
  \/ PipeMatch
  \/ PipeGroup
  \/ PipeSort
  \/ PipeLimit

SpecProducts == InitProducts /\ [][NextProducts]_vars

\* ------------------------------------------------------------ properties
\*
\* What a claim says a book controller answers is stated for the requests
\* whose store call did not fail (~last.threw); C13 is about the others.

\* The position in bs of the book whose _id is id (0 when there is none).
IndexOf(bs, id) == IF MatchId(bs, id) = {} THEN 0 ELSE Min(MatchId(bs, id))

\* C4: on POST /books/add the addBook controller runs if and only if the
\* body's name is not exactly the string "book1"; a request named "book1" is
\* handed to the framework as an error, addBook does not run and no book is
\* inserted.
C4_HookGatesAddBook ==
  last.op = "add" =>
    /\ last.ran <=> ~(last.body.name.t = "string" /\ last.body.name.v = "book1")
    /\ (last.body.name.t = "string" /\ last.body.name.v = "book1") =>
         (last.nextErr /\ ~last.ran /\ books = last.pre /\ last.trips = 0)
    /\ ~last.ran => books = last.pre

C4_Witness ==
  /\ last.op = "add" /\ last.body.name = Str("book1")
  /\ last.nextErr /\ ~last.ran /\ Len(books) > 0

\* C5: deleting a stored book answers 200 with removed count 1 and removes
\* it; the same delete issued again right after answers 200 with removed
\* count 0, never an error, and leaves the store as the first delete left it.
C5_DeleteIdempotent ==
  (last.op = "delete" /\ ~last.threw) =>
    /\ MatchId(last.pre, last.bookId) # {} =>
         /\ last.status = 200 /\ last.kind = "count" /\ last.count = 1
         /\ MatchId(books, last.bookId) = {}
         /\ Len(books) = Len(last.pre) - 1
    /\ (prev # "" /\ prev = last.bookId) =>
         /\ last.status = 200 /\ last.kind = "count" /\ last.count = 0
         /\ books = last.pre

C5_Witness ==
  /\ last.op = "delete" /\ prev = last.bookId /\ prev # ""
  /\ last.status = 200 /\ last.count = 0 /\ Len(books) > 0

\* Whether v is a string that is a well-formed object id.
WellFormedRef(v) == v.t = "string" /\ IsObjectIdString(v.v)

\* Whether an update body holds only values of the schema's types.
WellTyped(body) ==
  /\ body.name.t \in {"undefined", "null", "string"}
  /\ body.createdBy.t \in {"undefined", "null"} \/ WellFormedRef(body.createdBy)
  /\ body._id.t = "undefined" \/ WellFormedRef(body._id)

\* C6 (as claimed): for a well-formed id that is not in the store, read-one,
\* update (with a well-typed body) and delete each answer 404 and leave the
\* store unchanged.
C6_AbsentIdIsNotFound ==
  (/\ last.op \in {"readOne", "update", "delete"}
   /\ IsObjectIdString(last.bookId) /\ WellTyped(last.body)
   /\ MatchId(last.pre, last.bookId) = {} /\ ~last.threw) =>
    (last.status = 404 /\ books = last.pre)

\* C6 (amended): for a path value that is the id of no stored book the store
\* is left unchanged and the controller answers, without a crash: update 404
\* when the id is well-formed and the body is well-typed and 400 otherwise;
\* delete 200 with removed count 0 when the id is well-formed and 400
\* otherwise; read-one 404 unless a stored book has the path value as its
\* name, and then 200.
C6_AbsentIdAmended ==
  (/\ last.op \in {"readOne", "update", "delete"}
   /\ MatchId(last.pre, last.bookId) = {} /\ ~last.threw) =>
    /\ books = last.pre
    /\ last.ran /\ ~last.nextErr
    /\ last.op = "update" =>
         last.status = IF IsObjectIdString(last.bookId) /\ WellTyped(last.body)
                       THEN 404 ELSE 400
    /\ last.op = "delete" =>
         IF IsObjectIdString(last.bookId)
         THEN last.status = 200 /\ last.kind = "count" /\ last.count = 0
         ELSE last.status = 400
    /\ last.op = "readOne" =>
         last.status = IF \E i \in DOMAIN last.pre : last.pre[i].name = Str(last.bookId)
                       THEN 200 ELSE 404

C6_Witness ==
  /\ last.op = "update" /\ MatchId(last.pre, last.bookId) = {}
  /\ last.status = 404 /\ Len(last.pre) > 0 /\ last.body.name # Undef

\* C7: GET /books/:bookId with the id of a stored book answers 200 with that
\* very record, and with a path value that is the id of no stored book it
\* answers 404: the lookup key is the record's identity.
C7_ReadOneById ==
  (last.op = "readOne" /\ ~last.threw) =>
    IF MatchId(last.pre, last.bookId) # {}
    THEN last.status = 200 /\ last.kind = "doc" /\ last.doc._id = last.bookId
    ELSE last.status = 404

\* The value a supplied body field is stored as.
Stored(v) == IF WellFormedRef(v) THEN OidV(v.v) ELSE v

CreatedByNamed(bs, us, v) ==
  {i \in DOMAIN bs :
     \E j \in DOMAIN us : bs[i].createdBy = OidV(us[j]._id) /\ us[j].name = v}

\* C11: GET /books/list?name=v with a string v answers 200 with exactly the
\* stored books whose createdBy resolves to a user whose name is v, letter
\* case included, each once and in storage order, createdBy replaced by one
\* nested object holding that user's _id and name; the store is unchanged.
C11_JoinedListFiltered ==
  (last.op = "joined" /\ last.query.t = "string" /\ ~last.threw) =>
    LET kept == SelectIdx(last.pre, CreatedByNamed(last.pre, users, last.query.v)) IN
    /\ last.status = 200 /\ last.kind = "joined"
    /\ Len(last.joined) = Len(kept)
    /\ \A i \in DOMAIN kept :
         /\ last.joined[i]._id = kept[i]._id
         /\ last.joined[i].name = kept[i].name
         /\ last.joined[i].createdAt = kept[i].createdAt
         /\ last.joined[i].updatedAt = kept[i].updatedAt
         /\ \E j \in DOMAIN users :
              /\ kept[i].createdBy = OidV(users[j]._id)
              /\ users[j].name = last.query.v
              /\ last.joined[i].createdBy = Nested(users[j])
    /\ books = last.pre

C11_Witness ==
  /\ last.op = "joined" /\ last.query = Str("ann")
  /\ Len(last.pre) = 2 /\ Len(last.joined) = 1
  /\ last.pre[1].createdBy = OidV("u9") /\ last.pre[2].createdBy = OidV("u1")
  /\ last.joined[1]._id = last.pre[2]._id

\* Whether a field of a create body is present: a string was sent for it.
Present(v) == v.t = "string"

\* The ids of the records created before the last one.
CreatedBefore == {createdIds[k] : k \in 1..(Len(createdIds) - 1)}

HasBearerPrefix(h) ==
  /\ Len(h) >= 7
  /\ h[1] = "B" /\ h[2] = "e" /\ h[3] = "a" /\ h[4] = "r" /\ h[5] = "e" /\ h[6] = "r"
  /\ h[7] = " "

\* The token that carries claims c under the shared key.
SignedToken(c) ==
  <<"HS256", ".", PayloadSeg(c), ".", SigSeg("HS256", PayloadSeg(c), "yourSecretKey")>>

\* Whether tok passes verification at time t: signed with the shared key and
\* not expired.
Verifies(tok, t) == \E c \in ClaimsSet : tok = SignedToken(c) /\ t < c.exp

\* C1: a request whose Authorization header is absent, empty or does not
\* start with "Bearer " ends in 401 with a message; no token is verified,
\* req.user stays unset and next is not called.
C1_NoCredentialIs401 ==
  (gate.op = "gate" /\ (~gate.present \/ gate.header = <<>> \/ ~HasBearerPrefix(gate.header))) =>
    /\ gate.status = 401 /\ gate.message # ""
    /\ gate.verified = <<>>
    /\ ~gate.hasUser /\ gate.user = NoClaims
    /\ gate.nextCalls = 0

C1_Witness ==
  /\ gate.op = "gate" /\ gate.present /\ gate.status = 401
  /\ \E c \in ClaimsSet :
       gate.header = <<"b", "e", "a", "r", "e", "r", " ">> \o SignedToken(c) /\ gate.at < c.exp

\* C2: a request whose header starts with "Bearer " and whose token fails
\* verification against the shared key (malformed, expired, wrong signature,
\* tampered) ends in 400 with a message; req.user stays unset and next is not
\* called.  The token is the one the gate hands to verification.
C2_InvalidTokenIs400 ==
  (gate.op = "gate" /\ gate.present /\ HasBearerPrefix(gate.header)) =>
    /\ Len(gate.verified) = 1
    /\ ~Verifies(gate.verified[1], gate.at) =>
         /\ gate.status = 400 /\ gate.message # ""
         /\ ~gate.hasUser /\ gate.user = NoClaims
         /\ gate.nextCalls = 0

C2_Witness ==
  /\ gate.op = "gate" /\ gate.status = 400 /\ gate.nextCalls = 0
  /\ \E c \in ClaimsSet : gate.header = Bearer \o SignedToken(c) /\ gate.at >= c.exp

\* C3: a request whose header is "Bearer " followed by a token signed with
\* the shared key (and not expired) gets req.user set to exactly the claims
\* of that token, which for a token loginUser issued are the id and email of
\* the user who logged in; next is called once, the gate sends no response
\* and the store is neither read nor written.
C3_ValidTokenPasses ==
  /\ \A t \in issued : \E c \in ClaimsSet :
       t.token = SignedToken(c) /\ c.id = t.id /\ c.email = t.email
  /\ gate.op = "gate" =>
       \A c \in ClaimsSet :
         (gate.present /\ gate.header = Bearer \o SignedToken(c) /\ gate.at < c.exp) =>
           /\ gate.hasUser /\ gate.user = c
           /\ gate.nextCalls = 1
           /\ gate.status = 0 /\ gate.message = ""
           /\ gate.trips = 0 /\ users = SeedUsers /\ books = <<>>

C3_Witness ==
  /\ gate.op = "gate" /\ gate.hasUser /\ gate.nextCalls = 1 /\ gate.status = 0
  /\ \E t \in issued :
       gate.header = Bearer \o t.token /\ gate.user.id = t.id /\ t.id = "u2"

\* C10: of two registerUser requests with the same email, in every
\* interleaving of their findOne and save steps, the first stores its user,
\* the later one ends in an error response, and exactly one user with that
\* email is stored, under the username the successful request sent.
C10_SameEmailOneStored ==
  \A r \in Slots, q \in Slots :
    (/\ r # q /\ reg[r].pc = "done" /\ reg[q].pc = "done"
     /\ reg[r].body.email = reg[q].body.email
     /\ reg[r].body = RegBody("Eve", "eve1", "eve@x.io", "123456")
     /\ reg[q].body = RegBody("Eva", "eva2", "eve@x.io", "abcdef")) =>
      /\ Cardinality({i \in DOMAIN users : users[i].email = "eve@x.io"}) = 1
      /\ {reg[r].status, reg[q].status} \in {{201, 400}, {201, 500}}
      /\ \E i \in DOMAIN users :
           /\ users[i].email = "eve@x.io"
           /\ users[i].username = IF reg[r].status = 201 THEN "eve1" ELSE "eva2"

\* The sum of a field (or of 1 for each document) over the positions S of ds.
RECURSIVE SumOver(_, _, _)
SumOver(ds, S, field) ==
  IF S = {} THEN 0
  ELSE LET i == CHOOSE x \in S : TRUE IN
       (IF field = "quantity" THEN ds[i].quantity ELSE 1) + SumOver(ds, S \ {i}, field)

\* The products used as the worked example.
ExampleProducts ==
  << [_id |-> 1, price |-> 10, quantity |-> 5],
     [_id |-> 2, price |-> 10, quantity |-> 8],
     [_id |-> 3, price |-> 20, quantity |-> 2] >>

\* C12: grouping by price yields exactly one group for each distinct price,
\* its totalQuantity the sum of the quantities and its count the number of
\* the documents of that price; sorting by totalQuantity descending and
\* limiting to k yields k groups (all of them when there are fewer) in
\* descending order, none smaller than a group left out.  The documents
\* (10, 5), (10, 8), (20, 2) give the groups (10, 13, 2) and (20, 2, 1), and
\* limit 1 gives the price-10 group alone.
C12_GroupSortLimit ==
  LET ds == pipe.matched
      gs == pipe.groups
      out == pipe.out
      At(p) == {i \in DOMAIN ds : ds[i].price = p}
  IN
  /\ pipe.stage \in {"grouped", "sorted", "limited"} =>
       /\ Len(gs) = Cardinality({ds[i].price : i \in DOMAIN ds})
       /\ \A i \in DOMAIN ds : \E g \in DOMAIN gs : gs[g]._id = ds[i].price
       /\ \A g \in DOMAIN gs :
            /\ At(gs[g]._id) # {}
            /\ gs[g].totalQuantity = SumOver(ds, At(gs[g]._id), "quantity")
            /\ gs[g].count = Cardinality(At(gs[g]._id))
  /\ pipe.stage = "limited" =>
       /\ Len(out) = Min({pipe.k, Len(gs)})
       /\ Cardinality(Range(out)) = Len(out)
       /\ Range(out) \subseteq Range(gs)
       /\ \A i \in 1..(Len(out) - 1) : out[i].totalQuantity >= out[i + 1].totalQuantity
       /\ \A g \in Range(gs) \ Range(out), h \in Range(out) :
            g.totalQuantity <= h.totalQuantity
  /\ (pipe.stage = "limited" /\ ds = ExampleProducts) =>
       /\ Range(gs) = {[_id |-> 10, totalQuantity |-> 13, count |-> 2],
                       [_id |-> 20, totalQuantity |-> 2, count |-> 1]}
       /\ pipe.k = 1 => out = <<[_id |-> 10, totalQuantity |-> 13, count |-> 2]>>

C12_Witness ==
  /\ pipe.stage = "limited" /\ pipe.docs = ExampleProducts /\ pipe.k = 1
  /\ pipe.matched = ExampleProducts
  /\ pipe.groups[1]._id = 20
  /\ pipe.out = <<[_id |-> 10, totalQuantity |-> 13, count |-> 2]>>

\* C13: every invocation of addBook, getBookList, deleteBook, updateBook,
\* updateOnlyOneBook and listBook writes exactly one response, with status
\* 200, 404 or 400, whether its store call succeeds or throws; a store call
\* that throws is answered 400 with a message and nothing reaches the
\* framework's error handler.
C13_FaultContained ==
  (last.op # "none" /\ last.ran) =>
    /\ last.sent = 1
    /\ last.status \in {200, 404, 400}
    /\ ~last.nextErr
    /\ last.threw =>
         /\ last.status = 400 /\ last.kind = "message" /\ last.message # ""
         /\ books = last.pre

C13_Witness ==
  /\ last.op = "joined" /\ last.threw /\ last.status = 400 /\ last.sent = 1
  /\ last.kind = "message" /\ Len(books) = 2

\* C14: for every Authorization header that starts with "Bearer " the token
\* handed to verification is all of the header after that prefix, also when
\* that text holds spaces and when it is empty.
C14_TokenIsRestOfHeader ==
  (gate.op = "gate" /\ gate.present /\ HasBearerPrefix(gate.header)) =>
    gate.verified = <<SubSeq(gate.header, 8, Len(gate.header))>>

\* The relation of book b after join and collapse: the user it refers to as
\* a nested object, or absent when it refers to no user.
Collapsed(b, us) ==
  IF \E j \in DOMAIN us : b.createdBy = OidV(us[j]._id)
  THEN Nested(us[Min({j \in DOMAIN us : b.createdBy = OidV(us[j]._id)})])
  ELSE Absent

\* C15: GET /books/list without a name parameter answers with every stored
\* book, in storage order, those whose createdBy resolves to no user
\* included, each with the relation collapsed to the joined user or absent.
C15_NoFilterReturnsAll ==
  (last.op = "joined" /\ last.query = Undef /\ ~last.threw) =>
    /\ last.status = 200 /\ last.kind = "joined"
    /\ Len(last.joined) = Len(last.pre)
    /\ \A i \in DOMAIN last.pre :
         /\ last.joined[i]._id = last.pre[i]._id
         /\ last.joined[i].createdBy = Collapsed(last.pre[i], users)

\* C16: every book request makes at most one round-trip to the store, and a
\* request the pre-validation hook rejects makes none.
C16_AtMostOneRoundTrip ==
  last.op # "none" =>
    /\ last.trips <= 1
    /\ last.nextErr => last.trips = 0

\* C17: in every state reached by create, update and delete requests, every
\* stored book has a name and a createdBy reference that are present and not
\* null.
C17_RequiredFieldsPresent ==
  \A i \in DOMAIN books :
    /\ books[i].name.t \notin {"undefined", "null"}
    /\ books[i].createdBy.t \notin {"undefined", "null"}

====
